---------------------------- MODULE Spec2Model ----------------------------
(***************************************************************************)
(* The build-and-deploy pipeline declared by the CDK stack.               *)
(*                                                                         *)
(* The stack (src/unnamed/part_002, the unified pipeline) declares four    *)
(* stages, Source, DockerBuild, ViteBuild and Deploy, their actions, the   *)
(* artifacts the actions read and write, and the buildspecs the two        *)
(* CodeBuild projects run.  src/unnamed/part_001 and src/unnamed/part_000  *)
(* declare how the source trigger and the repository secret are chosen     *)
(* from the environment.  The model runs the declared pipeline: a run      *)
(* walks the declared stages, each action's program ends with an exit      *)
(* status the model chooses, and the artifacts are kept in one store       *)
(* shared by all runs and keyed by run.                                    *)
(*                                                                         *)
(* What the declarations mean when the pipeline runs is CodePipeline's and *)
(* CodeBuild's: stages run one after the other and a failed stage ends the *)
(* run; the actions of a stage that share a runOrder are started together  *)
(* and the stage ends when all of them have ended; a version 0.2 buildspec *)
(* runs its commands in one shell, so an exported variable is seen by the  *)
(* later phases; a failed pre_build ends the build, a failed build phase   *)
(* is still followed by post_build.  The store's put and get and the       *)
(* executor's MissingArtifact answer follow the design document: the stack *)
(* only declares which action writes and reads which artifact.             *)
(***************************************************************************)
EXTENDS Naturals, Sequences, FiniteSets, TLC

\* ------------------------------------------------------------------ bounds
\* the longest history a checkout is drawn from
MaxCommits == 2

\* Two runs of the pipeline: every property below is about one run or a pair of runs
Runs == {1, 2}

\* ------------------------------------------------- the repository's files
PackageJson == "package.json"
PnpmLock == "pnpm-lock.yaml"
OtherFile == "src/main.ts"
Files == {PackageJson, PnpmLock, OtherFile}
Contents == {"a", "b"}
Commits == [Files -> Contents]
Histories == UNION {[1..n -> Commits] : n \in 1..MaxCommits}

\* ------------------------------------------------------ trigger selection
\* process.env.LOCALSTACK_ENDPOINT: not set, set to the empty string, set to a URL
Undefined == "undefined"
EnvValues == {Undefined, "", "http://localhost:4566"}

\* the flag read by truthiness: an empty LOCALSTACK_ENDPOINT counts as not set
isLocalStackTruthy(endpoint) == endpoint \notin {Undefined, ""}

\* bin/cdk.ts: const isLocalStack = process.env.LOCALSTACK_ENDPOINT !== undefined
isLocalStack(endpoint) == endpoint # Undefined

\* GitHubSourceAction.trigger: props?.isLocalStack ? POLL : WEBHOOK
trigger(local) == IF local THEN "Poll" ELSE "Webhook"

\* GitHubSourceAction.oauthToken: props?.isLocalStack ? unsafePlainText : secretsManager
oauthToken(local) == IF local THEN "Plaintext" ELSE "Managed"

\* --------------------------------------------------- pipeline declaration
\* the stages with ViteBuild added before DockerBuild
StagesSwapped == <<"Source", "ViteBuild", "DockerBuild", "Deploy">>

\* unifiedPipeline.addStage(...) in the order of the calls
Stages == <<"Source", "DockerBuild", "ViteBuild", "Deploy">>

StageNames == {Stages[i] : i \in 1..Len(Stages)}

\* the stage list the stack declares for an environment mode
StagesFor(local) == Stages

StageActions(s) ==
    CASE s = "Source" -> {"GitHub_Source"}
      [] s = "DockerBuild" -> {"Docker_Build_And_Push"}
      [] s = "ViteBuild" -> {"Vite_Build"}
      [] s = "Deploy" -> {"S3_Deploy", "Invalidate_CloudFront"}
      [] OTHER -> {}

Actions == UNION {StageActions(s) : s \in StageNames}

SourceArtifact == "sourceOutput"
ViteBuildOutput == "ViteBuildOutput"

\* input: / inputs: of each action
ActionInputs(a) ==
    CASE a = "Docker_Build_And_Push" -> {SourceArtifact}
      [] a = "Vite_Build" -> {SourceArtifact}
      [] a = "S3_Deploy" -> {ViteBuildOutput}
      [] OTHER -> {}

\* the Docker build action declared with the Source artifact as its output as well
ActionOutputsShared(a) ==
    CASE a = "GitHub_Source" -> {SourceArtifact}
      [] a = "Docker_Build_And_Push" -> {SourceArtifact}
      [] a = "Vite_Build" -> {ViteBuildOutput}
      [] OTHER -> {}

\* output: / outputs: of each action
ActionOutputs(a) ==
    CASE a = "GitHub_Source" -> {SourceArtifact}
      [] a = "Vite_Build" -> {ViteBuildOutput}
      [] OTHER -> {}

\* no action of the stack sets runOrder: every action has the default, 1
RunOrder(a) == 1


\* ------------------------------------------------------------- git, shell
\* What a build's working copy shows of the history it was cloned from:
\* whether HEAD~1 resolves, and the files that differ between HEAD~1 and HEAD.
Checkout(h) ==
    [prior |-> Len(h) >= 2,
     changed |-> IF Len(h) >= 2
                 THEN {f \in Files : h[Len(h)][f] # h[Len(h) - 1][f]}
                 ELSE {}]

Workspaces == {Checkout(h) : h \in Histories}

\* git rev-parse --quiet --verify HEAD~1: exit status
GitRevParseVerify(ws) == IF ws.prior THEN 0 ELSE 1

\* git diff --quiet HEAD~1 -- <paths>: exit status (128: bad revision)
GitDiffQuiet(ws, paths) ==
    IF ~ws.prior THEN 128
    ELSE IF ws.changed \cap paths # {} THEN 1 ELSE 0

\* git diff given the manifest alone, without the lockfile
WatchedManifestOnly == {PackageJson}

\* the paths the pre_build command hands to git diff
WatchedPaths == {PackageJson, PnpmLock}

\* the command with its test reversed: skip unless git diff reports a difference
SkipUnlessDiff(ws) ==
    IF GitDiffQuiet(ws, WatchedPaths) = 1 THEN "false" ELSE "true"

\* pre_build, first command: the value it exports as SKIP_DOCKER_BUILD
SkipDockerBuild(ws) ==
    IF GitRevParseVerify(ws) = 0
    THEN IF GitDiffQuiet(ws, WatchedPaths) = 0 THEN "true" ELSE "false"
    ELSE "false"

\* the earlier stack's pre_build command: git diff --quiet HEAD~1 -- package.json,
\* with no test that HEAD~1 resolves
SkipManifestOnly(ws) ==
    IF GitDiffQuiet(ws, {PackageJson}) = 0 THEN "true" ELSE "false"

\* pre_build, first command: its exit status (an if ... fi whose branches are exports)
SkipCommandExit(ws) == 0

\* the registry's :latest tag: 0 when no image was ever pushed, else the run that built it
NoImage == 0

ExitCodes == {0, 1}

\* the buildspec with its build and post_build commands not guarded by the
\* SKIP_DOCKER_BUILD test: the image is built and pushed in every run
DockerBuildspecUnguarded(ws, reg, r, loginExit, pullExit, buildExit, pushExit) ==
    LET skip == SkipDockerBuild(ws)
        preOk == SkipCommandExit(ws) = 0 /\ loginExit = 0
        pulled == preOk /\ reg # NoImage /\ pullExit = 0
        built == preOk /\ buildExit = 0
        localLatest == IF built THEN r ELSE IF pulled THEN reg ELSE NoImage
        pushed == preOk /\ localLatest # NoImage /\ pushExit = 0
    IN  [ok |-> preOk /\ built /\ pushed,
         skip |-> skip,
         programs |-> {"git", "docker login"}
                      \cup (IF preOk THEN {"docker pull", "docker build"} ELSE {})
                      \cup (IF preOk /\ localLatest # NoImage
                            THEN {"docker push"} ELSE {}),
         registry |-> IF pushed THEN localLatest ELSE reg]

\* The buildspec of dockerBuildProject, run by CodeBuild on workspace ws for run r
\* with the registry's tag at reg.  A failed command fails its phase; a failed
\* pre_build ends the build, a failed build phase still runs post_build.
DockerBuildspec(ws, reg, r, loginExit, pullExit, buildExit, pushExit) ==
    LET skip == SkipDockerBuild(ws)
        preOk == SkipCommandExit(ws) = 0 /\ loginExit = 0
        \* docker pull <repo>:latest || true
        pulled == preOk /\ reg # NoImage /\ pullExit = 0
        \* docker build ...; docker tag vite-node-build:latest <repo>:latest
        built == preOk /\ skip # "true" /\ buildExit = 0
        buildOk == preOk /\ (skip = "true" \/ built)
        localLatest == IF built THEN r ELSE IF pulled THEN reg ELSE NoImage
        \* docker push <repo>:latest
        pushed == preOk /\ skip # "true" /\ localLatest # NoImage /\ pushExit = 0
        postOk == preOk /\ (skip = "true" \/ pushed)
    IN  [ok |-> preOk /\ buildOk /\ postOk,
         skip |-> skip,
         programs |-> {"git", "docker login"}
                      \cup (IF preOk THEN {"docker pull"} ELSE {})
                      \cup (IF preOk /\ skip # "true" THEN {"docker build"} ELSE {})
                      \cup (IF preOk /\ skip # "true" /\ localLatest # NoImage
                            THEN {"docker push"} ELSE {}),
         registry |-> IF pushed THEN localLatest ELSE reg]

\* The buildspec of viteBuildProject; its build image is <repo>:latest
ViteBuildspec(reg, installExit, buildExit) ==
    reg # NoImage /\ installExit = 0 /\ buildExit = 0

\* --------------------------------------------------------- artifact store
NoArtifact ==
    [run |-> 0, name |-> "", producer |-> "",
     payload |-> [prior |-> FALSE, changed |-> {}]]

Written(store, run, name) == \E x \in store : x.run = run /\ x.name = name

\* a store that overwrites an artifact written before
putOverwrite(store, run, name, producer, payload) ==
    [err |-> "None",
     store |-> {x \in store : ~(x.run = run /\ x.name = name)}
               \cup {[run |-> run, name |-> name,
                       producer |-> producer, payload |-> payload]}]

put(store, run, name, producer, payload) ==
    IF Written(store, run, name)
    THEN [err |-> "DuplicateArtifact", store |-> store]
    ELSE [err |-> "None",
          store |-> store \cup {[run |-> run, name |-> name,
                                  producer |-> producer, payload |-> payload]}]

\* a store that looks a name up in the artifacts of every run
getAnyRun(store, run, name) ==
    IF \E x \in store : x.name = name
    THEN [err |-> "None", art |-> CHOOSE x \in store : x.name = name]
    ELSE [err |-> "NotFound", art |-> NoArtifact]

get(store, run, name) ==
    IF Written(store, run, name)
    THEN [err |-> "None",
          art |-> CHOOSE x \in store : x.run = run /\ x.name = name]
    ELSE [err |-> "NotFound", art |-> NoArtifact]


\* ------------------------------------------------------------ state
VARIABLES
    endpoint,   \* process.env.LOCALSTACK_ENDPOINT when the stack is synthesized
    config,     \* the synthesized source action: trigger, secret, stage list
    runs,       \* the pipeline runs, by run identifier
    artifacts,  \* the artifact store: records of every run
    registry,   \* the build-image registry's :latest tag
    bucket      \* the deploy bucket: the run whose build output it holds, 0 if none

vars == <<endpoint, config, runs, artifacts, registry, bucket>>

NoConfig == [trigger |-> "", secret |-> "", stages |-> <<>>]

NewRun(r) ==
    [id |-> r,
     status |-> "Pending",
     stage |-> 0,
     act |-> [a \in Actions |-> "NotStarted"],
     err |-> [a \in Actions |-> "None"],
     inputs |-> {},
     results |-> <<>>,
     skip |-> "unset",
     programs |-> {},
     invalidations |-> 0]

Init ==
    /\ endpoint \in EnvValues
    /\ config = NoConfig
    /\ runs = [r \in Runs |-> NewRun(r)]
    /\ artifacts = {}
    /\ registry = NoImage
    /\ bucket = 0

\* ------------------------------------------------------------ the engine
Terminal(st) == st \in {"Succeeded", "Failed"}

\* The actions of stage s that start next: the not yet started ones of least runOrder
NextGroup(rr, s) ==
    LET waiting == {a \in StageActions(s) : rr.act[a] = "NotStarted"}
    IN  {a \in waiting : \A b \in waiting : RunOrder(a) <= RunOrder(b)}

\* an executor that starts an action without resolving its inputs
StartUnchecked(rr, store, a) ==
    [rr EXCEPT !.act[a] = "InProgress",
               !.inputs = @ \cup {<<a, get(store, rr.id, n).art>> : n \in ActionInputs(a)}]

\* Start of one action: its declared inputs are resolved from the run's artifacts;
\* an absent input fails the action with MissingArtifact and its program is not run.
StartAction(rr, store, a) ==
    LET got == {<<n, get(store, rr.id, n)>> : n \in ActionInputs(a)}
        missing == \E g \in got : g[2].err = "NotFound"
    IN  IF missing
        THEN [rr EXCEPT !.act[a] = "Failed", !.err[a] = "MissingArtifact"]
        ELSE [rr EXCEPT !.act[a] = "InProgress",
                        !.inputs = @ \cup {<<a, g[2].art>> : g \in got}]

RECURSIVE StartAll(_, _, _)
StartAll(rr, store, group) ==
    IF group = {} THEN rr
    ELSE LET a == CHOOSE x \in group : TRUE
         IN  StartAll(StartAction(rr, store, a), store, group \ {a})

\* a stage result read from the stage's first action alone
StageStatusFirstAction(rr, s) ==
    LET first == CHOOSE a \in StageActions(s) :
                     \A b \in StageActions(s) : a = b \/ a = "S3_Deploy"
    IN  IF rr.act[first] = "Failed" THEN "Failed"
        ELSE IF s = "DockerBuild" /\ rr.skip = "true" THEN "Skipped"
        ELSE "Succeeded"

\* How the result of a finished stage is recorded
StageStatus(rr, s) ==
    IF \E a \in StageActions(s) : rr.act[a] = "Failed" THEN "Failed"
    ELSE IF s = "DockerBuild" /\ rr.skip = "true" THEN "Skipped"
    ELSE "Succeeded"

\* an engine that records a failed stage and goes on to the next one
RECURSIVE SettleContinue(_, _)
SettleContinue(rr, store) ==
    IF rr.status # "Running" THEN rr
    ELSE
    LET s == Stages[rr.stage]
        acts == StageActions(s)
        result == [stage |-> s, status |-> StageStatus(rr, s)]
    IN  IF \E a \in acts : rr.act[a] = "InProgress" THEN rr
        ELSE IF NextGroup(rr, s) # {}
             THEN SettleContinue(StartAll(rr, store, NextGroup(rr, s)), store)
        ELSE IF rr.stage = Len(Stages)
             THEN [rr EXCEPT !.results = Append(@, result),
                             !.status = IF \E i \in 1..Len(rr.results) :
                                              rr.results[i].status = "Failed"
                                           \/ result.status = "Failed"
                                        THEN "Failed" ELSE "Succeeded"]
        ELSE SettleContinue([rr EXCEPT !.results = Append(@, result),
                                       !.stage = @ + 1], store)

\* The engine's step after a run's actions changed: while no action of the current
\* stage is in progress, a failed action fails the run, a waiting group is started,
\* and a finished stage is recorded and the next stage entered.
RECURSIVE Settle(_, _)
Settle(rr, store) ==
    IF rr.status # "Running" THEN rr
    ELSE
    LET s == Stages[rr.stage]
        acts == StageActions(s)
        result == [stage |-> s, status |-> StageStatus(rr, s)]
    IN  IF \E a \in acts : rr.act[a] = "InProgress" THEN rr
        ELSE IF \E a \in acts : rr.act[a] = "Failed"
             THEN [rr EXCEPT !.results = Append(@, result), !.status = "Failed"]
        ELSE IF NextGroup(rr, s) # {}
             THEN Settle(StartAll(rr, store, NextGroup(rr, s)), store)
        ELSE IF rr.stage = Len(Stages)
             THEN [rr EXCEPT !.results = Append(@, result), !.status = "Succeeded"]
        ELSE Settle([rr EXCEPT !.results = Append(@, result), !.stage = @ + 1], store)

\* An action's program ended: a zero exit writes the declared output artifact
FinishAction(rr, store, a, ok, payload) ==
    LET outs == ActionOutputs(a)
        p == IF ok /\ outs # {}
             THEN put(store, rr.id, CHOOSE n \in outs : TRUE, a, payload)
             ELSE [err |-> "None", store |-> store]
        done == IF ~ok THEN [rr EXCEPT !.act[a] = "Failed", !.err[a] = "StageFailed"]
                ELSE IF p.err # "None"
                     THEN [rr EXCEPT !.act[a] = "Failed", !.err[a] = p.err]
                ELSE [rr EXCEPT !.act[a] = "Succeeded"]
    IN  [run |-> Settle(done, p.store), store |-> p.store]

InputOf(rr, a, n) == CHOOSE x \in rr.inputs : x[1] = a /\ x[2].name = n

\* ------------------------------------------------------------ actions
\* cdk synth / deploy: the source action's trigger and token follow the environment
Synth ==
    /\ config = NoConfig
    /\ config' = [trigger |-> trigger(isLocalStack(endpoint)),
                  secret |-> oauthToken(isLocalStack(endpoint)),
                  stages |-> StagesFor(isLocalStack(endpoint))]
    /\ UNCHANGED <<endpoint, runs, artifacts, registry, bucket>>

\* A source change starts a run of the deployed pipeline
Trigger(r) ==
    /\ config # NoConfig
    /\ runs[r].status = "Pending"
    /\ runs' = [runs EXCEPT ![r] =
                   Settle([@ EXCEPT !.status = "Running", !.stage = 1], artifacts)]
    /\ UNCHANGED <<endpoint, config, artifacts, registry, bucket>>

\* Source / GitHub_Source: fetches the revision
GitHubSource(r) ==
    /\ runs[r].act["GitHub_Source"] = "InProgress"
    /\ \E exit \in ExitCodes, ws \in Workspaces :
          LET f == FinishAction(runs[r], artifacts, "GitHub_Source", exit = 0, ws)
          IN  /\ runs' = [runs EXCEPT ![r] = f.run]
              /\ artifacts' = f.store
    /\ UNCHANGED <<endpoint, config, registry, bucket>>

\* DockerBuild / Docker_Build_And_Push: CodeBuild runs dockerBuildProject's buildspec
DockerBuildAndPush(r) ==
    /\ runs[r].act["Docker_Build_And_Push"] = "InProgress"
    /\ \E loginExit \in ExitCodes, pullExit \in ExitCodes,
          buildExit \in ExitCodes, pushExit \in ExitCodes :
          LET src == InputOf(runs[r], "Docker_Build_And_Push", SourceArtifact)[2]
              b == DockerBuildspec(src.payload, registry, r,
                                   loginExit, pullExit, buildExit, pushExit)
              rr == [runs[r] EXCEPT !.skip = b.skip, !.programs = b.programs]
              f == FinishAction(rr, artifacts, "Docker_Build_And_Push", b.ok, src.payload)
          IN  /\ runs' = [runs EXCEPT ![r] = f.run]
              /\ artifacts' = f.store
              /\ registry' = b.registry
    /\ UNCHANGED <<endpoint, config, bucket>>

\* ViteBuild / Vite_Build: CodeBuild runs viteBuildProject's buildspec
ViteBuild(r) ==
    /\ runs[r].act["Vite_Build"] = "InProgress"
    /\ \E installExit \in ExitCodes, buildExit \in ExitCodes :
          LET src == InputOf(runs[r], "Vite_Build", SourceArtifact)[2]
              ok == ViteBuildspec(registry, installExit, buildExit)
              f == FinishAction(runs[r], artifacts, "Vite_Build", ok, src.payload)
          IN  /\ runs' = [runs EXCEPT ![r] = f.run]
              /\ artifacts' = f.store
    /\ UNCHANGED <<endpoint, config, registry, bucket>>

\* Deploy / S3_Deploy: writes the build output to the deploy bucket
S3Deploy(r) ==
    /\ runs[r].act["S3_Deploy"] = "InProgress"
    /\ \E exit \in ExitCodes :
          LET in == InputOf(runs[r], "S3_Deploy", ViteBuildOutput)[2]
              f == FinishAction(runs[r], artifacts, "S3_Deploy", exit = 0, in.payload)
          IN  /\ runs' = [runs EXCEPT ![r] = f.run]
              /\ artifacts' = f.store
              /\ bucket' = IF exit = 0 THEN in.run ELSE bucket
    /\ UNCHANGED <<endpoint, config, registry>>

\* Deploy / Invalidate_CloudFront: invokes the invalidation lambda
InvalidateCloudFront(r) ==
    /\ runs[r].act["Invalidate_CloudFront"] = "InProgress"
    /\ \E exit \in ExitCodes :
          LET rr == [runs[r] EXCEPT !.invalidations = @ + 1]
              f == FinishAction(rr, artifacts, "Invalidate_CloudFront", exit = 0,
                                NoArtifact.payload)
          IN  /\ runs' = [runs EXCEPT ![r] = f.run]
              /\ artifacts' = f.store
    /\ UNCHANGED <<endpoint, config, registry, bucket>>

Next ==
    \/ Synth
    \/ \E r \in Runs : Trigger(r)
    \/ \E r \in Runs : GitHubSource(r)
    \/ \E r \in Runs : DockerBuildAndPush(r)
    \/ \E r \in Runs : ViteBuild(r)
    \/ \E r \in Runs : S3Deploy(r)
    \/ \E r \in Runs : InvalidateCloudFront(r)

Spec == Init /\ [][Next]_vars


\* ------------------------------------------------------------ properties
\* The stage order, the inputs and the watched paths as the specification states them
DeclaredOrder == <<"Source", "DockerBuild", "ViteBuild", "Deploy">>

OrderOf(a) ==
    CASE a = "GitHub_Source" -> 1
      [] a = "Docker_Build_And_Push" -> 2
      [] a = "Vite_Build" -> 3
      [] OTHER -> 4

Started(rr, a) == rr.act[a] # "NotStarted" /\ rr.err[a] # "MissingArtifact"

Passed(st) == st \in {"Succeeded", "Skipped"}

\* C1: in every run the stage results are a prefix of Source, DockerBuild, ViteBuild,
\* Deploy; an action of a stage has started only when every earlier stage has a
\* Succeeded or Skipped result; and the actions in progress are all of one stage.
C1_StagesInDeclaredOrder ==
    \A r \in Runs :
        LET rr == runs[r] IN
        /\ Len(rr.results) <= Len(DeclaredOrder)
        /\ \A i \in 1..Len(rr.results) : rr.results[i].stage = DeclaredOrder[i]
        /\ \A a \in Actions :
              Started(rr, a) =>
                 \A j \in 1..(OrderOf(a) - 1) :
                    /\ j <= Len(rr.results)
                    /\ Passed(rr.results[j].status)
        /\ \A a, b \in Actions :
              rr.act[a] = "InProgress" /\ rr.act[b] = "InProgress"
                 => OrderOf(a) = OrderOf(b)

\* a run went through all four stages
C1_Witness ==
    \E r \in Runs : Len(runs[r].results) = 4 /\ runs[r].status = "Succeeded"

\* C2: once an action of a run has failed and no action of its stage is still running,
\* the stage's result is Failed and is the run's last result, the run is Failed, no
\* action of a later stage was started, and no stage has two results.
C2_FailFast ==
    \A r \in Runs :
        LET rr == runs[r] IN
        /\ \A a \in Actions :
              rr.act[a] = "Failed" =>
                 /\ \A b \in Actions : OrderOf(b) > OrderOf(a) => rr.act[b] = "NotStarted"
                 /\ (\A b \in Actions : rr.act[b] # "InProgress") =>
                       /\ rr.status = "Failed"
                       /\ Len(rr.results) = OrderOf(a)
                       /\ rr.results[Len(rr.results)].status = "Failed"
        /\ \A i \in 1..Len(rr.results) :
              rr.results[i].status = "Failed" => i = Len(rr.results)
        /\ \A i, j \in 1..Len(rr.results) :
              rr.results[i].stage = rr.results[j].stage => i = j

\* ViteBuild failed in a run: three results, the last Failed, Deploy never started
C2_Witness ==
    \E r \in Runs :
        /\ runs[r].act["Vite_Build"] = "Failed"
        /\ runs[r].status = "Failed"
        /\ Len(runs[r].results) = 3
        /\ runs[r].act["S3_Deploy"] = "NotStarted"

C3_StatusMatchesResults ==
    \A r \in Runs :
        LET rr == runs[r] IN
        /\ rr.status = "Failed"
              <=> \E i \in 1..Len(rr.results) : rr.results[i].status = "Failed"
        /\ rr.status = "Succeeded"
              <=> \A i \in 1..Len(DeclaredOrder) :
                     \E j \in 1..Len(rr.results) :
                        /\ rr.results[j].stage = DeclaredOrder[i]
                        /\ Passed(rr.results[j].status)

C3_TerminalIsFinal ==
    \A r \in Runs : Terminal(runs[r].status) => runs'[r].status = runs[r].status

\* C3: a run's status is Failed exactly when one of its stage results is Failed and
\* Succeeded exactly when each of the four stages has a Succeeded or Skipped result;
\* a status of Succeeded or Failed is never changed by a later step.
C3_OverallStatus == [](C3_StatusMatchesResults) /\ [][C3_TerminalIsFinal]_vars

\* one run ended Succeeded and the other Failed in the Deploy stage
C3_Witness ==
    \E r, q \in Runs :
        /\ runs[r].status = "Succeeded"
        /\ runs[q].status = "Failed" /\ Len(runs[q].results) = 4


\* The Source artifact a run's DockerBuild action resolved: the checkout it builds from
BuildWorkspace(rr) == InputOf(rr, "Docker_Build_And_Push", SourceArtifact)[2].payload

DockerBuildRan(rr) == rr.act["Docker_Build_And_Push"] \in {"Succeeded", "Failed"}

\* C4: a run whose checkout resolves no prior revision exports SKIP_DOCKER_BUILD=false,
\* its DockerBuild stage is never recorded Skipped and, once the registry login has
\* succeeded, docker build is run; on such a checkout the build succeeds whenever
\* the login, the image build and the push exit zero, whatever the registry holds;
\* and the earlier stack's command, which does not test HEAD~1, exports false as well.
C4_NoPriorNeverSkips ==
    /\ \A r \in Runs :
          LET rr == runs[r] IN
          (DockerBuildRan(rr) /\ ~BuildWorkspace(rr).prior) =>
             /\ rr.skip = "false"
             /\ \A i \in 1..Len(rr.results) : rr.results[i].status # "Skipped"
             /\ rr.act["Docker_Build_And_Push"] = "Succeeded"
                   => "docker build" \in rr.programs
             /\ \A reg \in Runs \cup {NoImage}, pullExit \in ExitCodes :
                   DockerBuildspec(BuildWorkspace(rr), reg, r, 0, pullExit, 0, 0).ok
             /\ SkipManifestOnly(BuildWorkspace(rr)) = "false"

\* a run on a checkout without a prior revision built and pushed the image
C4_Witness ==
    \E r \in Runs :
        /\ runs[r].act["Docker_Build_And_Push"] = "Succeeded"
        /\ ~BuildWorkspace(runs[r]).prior
        /\ runs[r].skip = "false"
        /\ registry = r

\* decide over every history with a prior revision: skip exactly when the last two
\* commits agree on package.json and on pnpm-lock.yaml
C5_SingleCommitDiff ==
    \A h \in Histories :
        Len(h) >= 2 =>
           (SkipDockerBuild(Checkout(h)) = "true"
               <=> /\ h[Len(h)]["package.json"] = h[Len(h) - 1]["package.json"]
                   /\ h[Len(h)]["pnpm-lock.yaml"] = h[Len(h) - 1]["pnpm-lock.yaml"])

C6_InvalidateOnlyOnSuccess ==
    \A r \in Runs :
        /\ runs[r].status = "Succeeded" => runs[r].invalidations = 1
        /\ runs[r].status = "Failed" => runs[r].invalidations = 0


\* The inputs the specification declares for each action
DeclaredInputs(a) ==
    CASE a = "Docker_Build_And_Push" -> {"sourceOutput"}
      [] a = "Vite_Build" -> {"sourceOutput"}
      [] a = "S3_Deploy" -> {"ViteBuildOutput"}
      [] OTHER -> {}

\* C7: an action whose program was started has every declared input in its run's
\* artifacts, the Source artifact written by a succeeded GitHub_Source and
\* ViteBuildOutput by a succeeded Vite_Build; and in every state, starting an action
\* of which a declared input is absent from the run's artifacts fails it with
\* MissingArtifact and leaves its program not running.
C7_InputsExistBeforeStart ==
    \A r \in Runs : \A a \in Actions :
        LET rr == runs[r] IN
        /\ Started(rr, a) =>
              \A n \in DeclaredInputs(a) :
                 /\ Written(artifacts, r, n)
                 /\ \E x \in rr.inputs : x[1] = a /\ x[2].name = n /\ x[2] \in artifacts
                 /\ n = "sourceOutput" => rr.act["GitHub_Source"] = "Succeeded"
                 /\ n = "ViteBuildOutput" => rr.act["Vite_Build"] = "Succeeded"
        /\ (\E n \in DeclaredInputs(a) : ~Written(artifacts, r, n)) =>
              LET after == StartAction(rr, artifacts, a) IN
              /\ after.act[a] = "Failed"
              /\ after.err[a] = "MissingArtifact"
              /\ after.inputs = rr.inputs
              /\ rr.act[a] = "NotStarted"

\* a run's Deploy stage is under way, with ViteBuildOutput written and resolved, while
\* the other run has not yet written the Source artifact its build stages need
C7_Witness ==
    \E r, q \in Runs :
        /\ runs[r].act["S3_Deploy"] = "InProgress"
        /\ Written(artifacts, r, "ViteBuildOutput")
        /\ runs[q].act["GitHub_Source"] = "InProgress"
        /\ ~Written(artifacts, q, "sourceOutput")

C9_RunsAreIsolated ==
    \A r \in Runs :
        /\ \A x \in runs[r].inputs : x[2].run = r
        /\ \A a \in Actions : runs[r].err[a] # "DuplicateArtifact"
        /\ \A n \in {"sourceOutput", "ViteBuildOutput"} :
              /\ get(artifacts, r, n).err = "None" => get(artifacts, r, n).art.run = r
              /\ ~(\E x \in artifacts : x.run = r /\ x.name = n) =>
                    LET p == put(artifacts, r, n, "GitHub_Source", NoArtifact.payload)
                    IN  /\ p.err = "None"
                        /\ \A q \in Runs \ {r} :
                              \A m \in {"sourceOutput", "ViteBuildOutput"} :
                                 get(p.store, q, m) = get(artifacts, q, m)

\* both runs wrote a Source artifact, of different checkouts, and the second run's
\* ViteBuild resolved its own while the first has not written ViteBuildOutput
C9_Witness ==
    \E r, q \in Runs :
        /\ r # q
        /\ \E x, y \in artifacts :
              /\ x.run = r /\ y.run = q
              /\ x.name = "sourceOutput" /\ y.name = "sourceOutput"
              /\ x.payload # y.payload
        /\ \E x \in artifacts : x.run = q /\ x.name = "ViteBuildOutput"
        /\ ~(\E x \in artifacts : x.run = r /\ x.name = "ViteBuildOutput")
        /\ runs[r].act["Docker_Build_And_Push"] = "InProgress"

\* C10: the synthesized source action polls with a plaintext token exactly when
\* LOCALSTACK_ENDPOINT is defined, and otherwise uses the webhook with the managed
\* secret; the declared stages are the same four, in the same order, either way.
C10_TriggerFollowsEnvironment ==
    /\ config # NoConfig =>
          /\ endpoint # "undefined" =>
                config.trigger = "Poll" /\ config.secret = "Plaintext"
          /\ endpoint = "undefined" =>
                config.trigger = "Webhook" /\ config.secret = "Managed"
          /\ config.stages = DeclaredOrder
    /\ \A e1, e2 \in EnvValues :
          /\ (e1 = "undefined") = (e2 = "undefined") =>
                /\ trigger(isLocalStack(e1)) = trigger(isLocalStack(e2))
                /\ oauthToken(isLocalStack(e1)) = oauthToken(isLocalStack(e2))
          /\ StagesFor(isLocalStack(e1)) = StagesFor(isLocalStack(e2))

\* the stack was synthesized with LOCALSTACK_ENDPOINT set to the empty string, and a
\* run of the polled pipeline succeeded
C10_Witness ==
    /\ endpoint = ""
    /\ config.trigger = "Poll"
    /\ \E r \in Runs : runs[r].status = "Succeeded"


\* The step in which run r's DockerBuild action ends
DockerBuildEnds(r) ==
    /\ runs[r].act["Docker_Build_And_Push"] = "InProgress"
    /\ runs'[r].act["Docker_Build_And_Push"] # "InProgress"

\* The claim as stated: a DockerBuild that ends with the skip flag true is recorded
\* Skipped, has run no program and resolved no artifact, leaves the artifacts and the
\* registry tag as they were, and ViteBuild is started.
C11_SkipStep ==
    \A r \in Runs :
        (DockerBuildEnds(r) /\ runs'[r].skip = "true") =>
           /\ runs'[r].results[2].status = "Skipped"
           /\ runs'[r].programs = {}
           /\ ~(\E x \in runs'[r].inputs : x[1] = "Docker_Build_And_Push")
           /\ artifacts' = artifacts
           /\ registry' = registry
           /\ runs'[r].act["Vite_Build"] # "NotStarted"

C11_AmendedStep ==
    \A r \in Runs :
        (DockerBuildEnds(r) /\ runs'[r].skip = "true") =>
           LET rr == runs'[r] IN
           /\ \E x \in rr.inputs :
                 /\ x[1] = "Docker_Build_And_Push"
                 /\ x[2].name = "sourceOutput" /\ x[2].run = r
           /\ {"git", "docker login"} \subseteq rr.programs
           /\ rr.programs \cap {"docker build", "docker push"} = {}
           /\ artifacts' = artifacts
           /\ registry' = registry
           /\ Len(rr.results) = 2
           /\ rr.results[2].stage = "DockerBuild"
           /\ rr.act["Docker_Build_And_Push"] = "Succeeded" =>
                 /\ rr.results[2].status = "Skipped"
                 /\ "docker pull" \in rr.programs
                 /\ rr.act["Vite_Build"] = "InProgress"
           /\ rr.act["Docker_Build_And_Push"] = "Failed" =>
                 /\ rr.results[2].status = "Failed"
                 /\ rr.status = "Failed"
                 /\ rr.act["Vite_Build"] = "NotStarted"

C12_DeployBeforeInvalidate ==
    \A r \in Runs :
        runs[r].act["Invalidate_CloudFront"] # "NotStarted"
           => runs[r].act["S3_Deploy"] = "Succeeded"

=============================================================================
